---- MODULE Spec2Model ----
(***************************************************************************)
(* Model of custom_components/vulcan/sensor.py: the six polled sensor      *)
(* entities (LatestGrade, LatestAttendance, LatestMessage, NextHomework,   *)
(* NextExam, LuckyNumber) and the timetable DataUpdateCoordinator.         *)
(*                                                                         *)
(* The six entity classes share no mutable state: every async_update       *)
(* reads and writes only the fields of its own object, reads the device    *)
(* registry and writes to the notification service and the event bus.      *)
(* Specification Spec therefore follows ONE entity, of any of the six      *)
(* classes (cls), from its construction in async_setup_entry through any   *)
(* sequence of async_update calls.  Specification SpecLessons follows the  *)
(* timetable coordinator of the same config entry, and specification      *)
(* SpecSetup follows the async_setup_entry calls made in one process.      *)
(* Specification SpecOverlap follows two async_update calls of one tracker *)
(* that are in flight at the same time.                                    *)
(*                                                                         *)
(* Strings the code concatenates or slices are sequences of characters.    *)
(***************************************************************************)
EXTENDS Integers, Sequences, FiniteSets, TLC

VARIABLES
    cls,                \* class of the entity; "none" before it is constructed
    notify,             \* self.notify: the option value read at setup
    latest_grade,       \* LatestGrade.latest_grade
    old_state,          \* LatestGrade.old_state (the "_"-joined key)
    latest_attendance,  \* LatestAttendance.latest_attendance
    old_att,            \* LatestAttendance.old_att
    latest_message,     \* LatestMessage.latest_message
    old_msg,            \* LatestMessage.old_msg
    next_homework,      \* NextHomework.next_homework
    next_exam,          \* NextExam.next_exam
    lucky_number,       \* LuckyNumber.lucky_number
    state,              \* self._state of the entity
    devices,            \* device registry: the identifiers that are registered
    fetches,            \* what each fetch call of the last async_update returned
    raised,             \* exception that left the last async_update ("none")
    notifications,      \* persistent notifications created by the last call
    events,             \* vulcan_event events fired by the last call
    calls,              \* parity of the number of calls made so far
    today,              \* datetime.date.today(), as a day number
    data,               \* coordinator.data
    last_update_success,\* coordinator.last_update_success
    cpc,                \* position of the running timetable refresh
    partial,            \* "lessons" fetched by the running refresh
    reauth,             \* reauth flows started by the last refresh
    update_failed,      \* the last refresh raised UpdateFailed
    last_error,         \* what ended the body of the last refresh ("none")
    recovered,          \* the last refresh succeeded after a failed one
    last_good,          \* what the last refresh that fetched both sets built
    refreshes,          \* parity of the number of refreshes ended so far
    SCAN_INTERVAL,      \* the module global SCAN_INTERVAL
    options,            \* config_entry.options of the entry being set up
    update_interval,    \* update_interval of the coordinator of that entry
    spc,                \* position of the running async_setup_entry (0: none)
    setup_raised,       \* exception that left the last async_setup_entry ("none")
    entities_added,     \* the last async_setup_entry called async_add_entities
    connection_error,   \* "connection_error" in hass.data[DOMAIN]
    entries,            \* number of async_setup_entry calls started so far
    inflight,           \* the async_update calls of the entity that overlap
    target,             \* the snapshot the portal serves to those calls
    target_changed      \* that snapshot counted as changed when they began

entityVars == <<cls, notify, latest_grade, old_state, latest_attendance, old_att,
                latest_message, old_msg, next_homework, next_exam, lucky_number,
                state, devices, fetches, raised, notifications, events, calls>>
lessonVars == <<today, data, last_update_success, cpc, partial, reauth, update_failed,
                last_error, recovered, last_good, refreshes>>
setupVars == <<SCAN_INTERVAL, options, update_interval, spc, setup_raised,
               entities_added, connection_error, entries>>
overlapVars == <<inflight, target, target_changed>>
vars == <<entityVars, lessonVars, setupVars, overlapVars>>

-----------------------------------------------------------------------------
(* Bounds of the model *)

\* attendance datetimes are 0..MaxDatetime
MaxDatetime == 2
\* message ids are 0..MaxMsgId (0 is the "no message" id)
MaxMsgId == 2
\* lucky numbers are 0..MaxLucky
MaxLucky == 1
\* the clock runs over the days 0..MaxDay
MaxDay == 2
\* the portal serves the timetable of a day in the versions 1..MaxVersion
MaxVersion == 2
\* the lesson slots of a day are 0..NumSlots-1 (CONF_LESSON_ENTITIES_NUMBER)
NumSlots == 2
\* a scan interval set in the options is 1..MaxScanInterval minutes
MaxScanInterval == 2
\* config entries set up in one process
MaxEntries == 2

(* Program constants *)

\* the slice [0:250] applied to titles and descriptions
STATE_MAX_LEN == 250

-----------------------------------------------------------------------------
(* Values the fetchers can return *)

Min(a, b) == IF a < b THEN a ELSE b

LongText == [i \in 1..(STATE_MAX_LEN + 1) |-> "x"]

GradeContents == {<<"-">>, <<"5">>, <<"5", "_">>}
GradeSubjects == {<<"M">>, <<"_", "M">>}
GradeDates == {<<"1">>, <<"2">>}
GradeDescriptions == {<<"q">>}
Grades == [content : GradeContents, subject : GradeSubjects,
           date : GradeDates, description : GradeDescriptions]

AttendanceContents == {"-", "obecnosc", "spoznienie"}
Attendances == [content : AttendanceContents, datetime : 0..MaxDatetime]

Titles == {<<"t">>, LongText}
Messages == [id : 0..MaxMsgId, title : Titles]

Descriptions == {<<"d">>, LongText}
Homeworks == [description : Descriptions]
Exams == [description : Descriptions]
LuckyNumbers == [number : 0..MaxLucky]

\* what the constructor of another class leaves in a field it does not have
None == [none |-> TRUE]
\* the lessons of a refresh that has fetched none yet
NoLessons == <<>>

\* timedelta(minutes=...), and timedelta(minutes=DEFAULT_SCAN_INTERVAL), the
\* value SCAN_INTERVAL has when the module is loaded
timedelta(minutes) == [minutes |-> minutes]
DefaultInterval == [default |-> TRUE]

\* config_entry.options: without the scan interval, or with one
NoOptions == <<>>
EntryOptions == {NoOptions} \cup {[scan_interval |-> n] : n \in 1..MaxScanInterval}

\* two async_update calls of one entity, and a call that has not begun
Tasks == {"a", "b"}
NotStarted == [pc |-> "idle", fetches |-> <<>>, notifications |-> <<>>]

Classes == {"grade", "attendance", "message", "homework", "exam", "lucky_number"}
NotifyValues == {"True", "False", "None"}
DeviceKinds == {"grade", "attendance", "message"}

\* exceptions a fetch can raise
FetchErrors == {"ClientConnectorError", "UnauthorizedCertificateException"}

Ok(v) == [ok |-> TRUE, value |-> v]
Err(e) == [ok |-> FALSE, err |-> e]
Results(S) == {Ok(v) : v \in S} \cup {Err(e) : e \in FetchErrors}

-----------------------------------------------------------------------------
(* Pure helpers of the entities *)

\* s[0:250]
Truncate_Whole(s) == s
Truncate(s) == SubSeq(s, 1, Min(Len(s), STATE_MAX_LEN))

\* f"{content}_{subject}_{date}_{description}"
GradeKey(g) == g.content \o <<"_">> \o g.subject \o <<"_">> \o g.date
                 \o <<"_">> \o g.description

\* try: x = await get(); except Exception: x = await get()
\* r1, r2: what the first and the second call would return or raise;
\* the value is the sequence of the calls made
RetryOnce_NoRetry(r1, r2) == <<r1>>
RetryOnce(r1, r2) == IF r1.ok THEN <<r1>> ELSE <<r1, r2>>

\* what the last call made returned or raised
Last_First(f) == f[1]
Last(f) == f[Len(f)]

\* every way the fetch of one async_update can go
Fetches(S) == {RetryOnce(r1, r2) : r1, r2 \in Results(S)}

\* the condition of LatestGrade.async_update
GradeIsNew_NoSentinel(old, g) == old # GradeKey(g)
GradeIsNew(old, g) == g.content # <<"-">> /\ old # GradeKey(g)

\* the condition of LatestMessage.async_update
MessageIsNew_NoBaseline(old, m) == m.id # 0
MessageIsNew_NoSentinel(old, m) == old # m.id
MessageIsNew(old, m) == old # m.id /\ m.id # 0

\* the outer condition of LatestAttendance.async_update
AttendanceIsNew_NotStrict(old, a) == a.content # "-" /\ old <= a.datetime
AttendanceIsNew(old, a) == a.content # "-" /\ old < a.datetime

\* the inner condition of LatestAttendance.async_update
AttendanceNotifies_IgnoresToggle(n, a) == a.content # "obecnosc"
AttendanceNotifies(n, a) == n = "True" /\ a.content # "obecnosc"

\* the value of old_state / old_msg / old_att after a successful fetch
GradeBaseline_Always(old, g) == GradeKey(g)
GradeBaseline(old, g) == IF GradeIsNew(old, g) THEN GradeKey(g) ELSE old

MessageBaseline_Keep(old, m) == old
MessageBaseline(old, m) == IF MessageIsNew(old, m) THEN m.id ELSE old

AttendanceBaseline_Always(old, a) == a.datetime
AttendanceBaseline(old, a) == IF AttendanceIsNew(old, a) THEN a.datetime ELSE old

\* the baseline a constructor takes from the setup snapshot
InitialBaseline_Empty(c, s) == IF c = "grade" THEN <<>> ELSE 0
InitialBaseline(c, s) ==
    CASE c = "grade" -> GradeKey(s)
      [] c = "attendance" -> s.datetime
      [] c = "message" -> s.id

\* the vulcan_event fired when the looked-up device is registered
DeviceEvent(identifier, type) ==
    IF identifier \in devices
    THEN <<[device_id |-> identifier, type |-> type]>>
    ELSE <<>>

Notification(kind, snapshot) == <<[kind |-> kind, snapshot |-> snapshot]>>

-----------------------------------------------------------------------------
Init ==
    /\ cls = "none"
    /\ notify = "None"
    /\ latest_grade = None
    /\ old_state = <<>>
    /\ latest_attendance = None
    /\ old_att = 0
    /\ latest_message = None
    /\ old_msg = 0
    /\ next_homework = None
    /\ next_exam = None
    /\ lucky_number = None
    /\ state = <<>>
    /\ devices \in SUBSET DeviceKinds
    /\ fetches = <<>>
    /\ raised = "none"
    /\ notifications = <<>>
    /\ events = <<>>
    /\ calls = 0
    /\ today = 0
    /\ data = None
    /\ last_update_success = TRUE
    /\ cpc = "idle"
    /\ partial = NoLessons
    /\ reauth = 0
    /\ update_failed = FALSE
    /\ last_error = "none"
    /\ recovered = FALSE
    /\ last_good = None
    /\ refreshes = 0
    /\ SCAN_INTERVAL = DefaultInterval
    /\ options = NoOptions
    /\ update_interval = None
    /\ spc = 0
    /\ setup_raised = "none"
    /\ entities_added = FALSE
    /\ connection_error = FALSE
    /\ entries = 0
    /\ inflight = [i \in Tasks |-> NotStarted]
    /\ target = None
    /\ target_changed = FALSE

\* every entity call leaves these as a fresh record of what it did
Called(f, r, ns, es) ==
    /\ fetches' = f
    /\ raised' = r
    /\ notifications' = ns
    /\ events' = es
    /\ calls' = 1 - calls

-----------------------------------------------------------------------------
(* Construction: async_setup_entry fetches the first snapshot of every kind *)
(* and hands it to the constructor of each entity class.                    *)

\* LatestGrade.__init__
LatestGrade_init ==
    /\ cls = "none"
    /\ \E g \in Grades, n \in NotifyValues :
        /\ cls' = "grade"
        /\ latest_grade' = g
        /\ state' = g.content
        /\ notify' = n
        /\ old_state' = InitialBaseline("grade", g)
    /\ Called(<<>>, "none", <<>>, <<>>)
    /\ UNCHANGED <<latest_attendance, old_att, latest_message, old_msg,
                   next_homework, next_exam, lucky_number, devices>>

\* LatestAttendance.__init__
LatestAttendance_init ==
    /\ cls = "none"
    /\ \E a \in Attendances, n \in NotifyValues :
        /\ cls' = "attendance"
        /\ latest_attendance' = a
        /\ notify' = n
        /\ old_att' = InitialBaseline("attendance", a)
        /\ state' = a.content
    /\ Called(<<>>, "none", <<>>, <<>>)
    /\ UNCHANGED <<latest_grade, old_state, latest_message, old_msg,
                   next_homework, next_exam, lucky_number, devices>>

\* LatestMessage.__init__
LatestMessage_init ==
    /\ cls = "none"
    /\ \E m \in Messages, n \in NotifyValues :
        /\ cls' = "message"
        /\ latest_message' = m
        /\ notify' = n
        /\ old_msg' = InitialBaseline("message", m)
        /\ state' = Truncate(m.title)
    /\ Called(<<>>, "none", <<>>, <<>>)
    /\ UNCHANGED <<latest_grade, old_state, latest_attendance, old_att,
                   next_homework, next_exam, lucky_number, devices>>

\* NextHomework.__init__
NextHomework_init ==
    /\ cls = "none"
    /\ \E h \in Homeworks :
        /\ cls' = "homework"
        /\ next_homework' = h
        /\ state' = Truncate(h.description)
    /\ Called(<<>>, "none", <<>>, <<>>)
    /\ UNCHANGED <<notify, latest_grade, old_state, latest_attendance, old_att,
                   latest_message, old_msg, next_exam, lucky_number, devices>>

\* NextExam.__init__
NextExam_init ==
    /\ cls = "none"
    /\ \E e \in Exams :
        /\ cls' = "exam"
        /\ next_exam' = e
        /\ state' = Truncate(e.description)
    /\ Called(<<>>, "none", <<>>, <<>>)
    /\ UNCHANGED <<notify, latest_grade, old_state, latest_attendance, old_att,
                   latest_message, old_msg, next_homework, lucky_number, devices>>

\* LuckyNumber.__init__
LuckyNumber_init ==
    /\ cls = "none"
    /\ \E l \in LuckyNumbers :
        /\ cls' = "lucky_number"
        /\ lucky_number' = l
        /\ state' = l.number
    /\ Called(<<>>, "none", <<>>, <<>>)
    /\ UNCHANGED <<notify, latest_grade, old_state, latest_attendance, old_att,
                   latest_message, old_msg, next_homework, next_exam, devices>>

-----------------------------------------------------------------------------
(* async_update of each class.  f is the way its fetch went: what each call *)
(* made returned or raised.  When the second call raises too, the           *)
(* assignment never happens and the exception leaves async_update.          *)

\* LatestGrade.async_update
LatestGrade_async_update ==
    /\ cls = "grade"
    /\ \E f \in Fetches(Grades) :
        IF ~Last(f).ok
        THEN /\ Called(f, Last(f).err, <<>>, <<>>)
             /\ UNCHANGED <<latest_grade, old_state, state>>
        ELSE LET g == Last(f).value
                 new == GradeIsNew(old_state, g)
             IN /\ latest_grade' = g
                /\ old_state' = GradeBaseline(old_state, g)
                /\ state' = g.content
                /\ Called(f, "none",
                          IF new /\ notify = "True"
                          THEN Notification("grade", g) ELSE <<>>,
                          IF new THEN DeviceEvent("message", "new_grade") ELSE <<>>)
    /\ UNCHANGED <<cls, notify, latest_attendance, old_att, latest_message, old_msg,
                   next_homework, next_exam, lucky_number, devices>>

\* LatestAttendance.async_update
LatestAttendance_async_update ==
    /\ cls = "attendance"
    /\ \E f \in Fetches(Attendances) :
        IF ~Last(f).ok
        THEN /\ Called(f, Last(f).err, <<>>, <<>>)
             /\ UNCHANGED <<latest_attendance, old_att, state>>
        ELSE LET a == Last(f).value
                 new == AttendanceIsNew(old_att, a)
             IN /\ latest_attendance' = a
                /\ old_att' = AttendanceBaseline(old_att, a)
                /\ state' = a.content
                /\ Called(f, "none",
                          IF new /\ AttendanceNotifies(notify, a)
                          THEN Notification("attendance", a) ELSE <<>>,
                          IF new THEN DeviceEvent("attendance", "new_attendance")
                          ELSE <<>>)
    /\ UNCHANGED <<cls, notify, latest_grade, old_state, latest_message, old_msg,
                   next_homework, next_exam, lucky_number, devices>>

\* LatestMessage.async_update
LatestMessage_async_update ==
    /\ cls = "message"
    /\ \E f \in Fetches(Messages) :
        IF ~Last(f).ok
        THEN /\ Called(f, Last(f).err, <<>>, <<>>)
             /\ UNCHANGED <<latest_message, old_msg, state>>
        ELSE LET m == Last(f).value
                 new == MessageIsNew(old_msg, m)
             IN /\ latest_message' = m
                /\ old_msg' = MessageBaseline(old_msg, m)
                /\ state' = Truncate(m.title)
                /\ Called(f, "none",
                          IF new /\ notify = "True"
                          THEN Notification("message", m) ELSE <<>>,
                          IF new THEN DeviceEvent("message", "new_message") ELSE <<>>)
    /\ UNCHANGED <<cls, notify, latest_grade, old_state, latest_attendance, old_att,
                   next_homework, next_exam, lucky_number, devices>>

\* NextHomework.async_update
NextHomework_async_update ==
    /\ cls = "homework"
    /\ \E f \in Fetches(Homeworks) :
        IF ~Last(f).ok
        THEN /\ Called(f, Last(f).err, <<>>, <<>>)
             /\ UNCHANGED <<next_homework, state>>
        ELSE /\ next_homework' = Last(f).value
             /\ state' = Truncate(Last(f).value.description)
             /\ Called(f, "none", <<>>, <<>>)
    /\ UNCHANGED <<cls, notify, latest_grade, old_state, latest_attendance, old_att,
                   latest_message, old_msg, next_exam, lucky_number, devices>>

\* NextExam.async_update
NextExam_async_update ==
    /\ cls = "exam"
    /\ \E f \in Fetches(Exams) :
        IF ~Last(f).ok
        THEN /\ Called(f, Last(f).err, <<>>, <<>>)
             /\ UNCHANGED <<next_exam, state>>
        ELSE /\ next_exam' = Last(f).value
             /\ state' = Truncate(Last(f).value.description)
             /\ Called(f, "none", <<>>, <<>>)
    /\ UNCHANGED <<cls, notify, latest_grade, old_state, latest_attendance, old_att,
                   latest_message, old_msg, next_homework, lucky_number, devices>>

\* LuckyNumber.async_update
LuckyNumber_async_update ==
    /\ cls = "lucky_number"
    /\ \E f \in Fetches(LuckyNumbers) :
        IF ~Last(f).ok
        THEN /\ Called(f, Last(f).err, <<>>, <<>>)
             /\ UNCHANGED <<lucky_number, state>>
        ELSE /\ lucky_number' = Last(f).value
             /\ state' = Last(f).value.number
             /\ Called(f, "none", <<>>, <<>>)
    /\ UNCHANGED <<cls, notify, latest_grade, old_state, latest_attendance, old_att,
                   latest_message, old_msg, next_homework, next_exam, devices>>

Next ==
    \/ (LatestGrade_init /\ UNCHANGED <<lessonVars, setupVars, overlapVars>>)
    \/ (LatestAttendance_init /\ UNCHANGED <<lessonVars, setupVars, overlapVars>>)
    \/ (LatestMessage_init /\ UNCHANGED <<lessonVars, setupVars, overlapVars>>)
    \/ (NextHomework_init /\ UNCHANGED <<lessonVars, setupVars, overlapVars>>)
    \/ (NextExam_init /\ UNCHANGED <<lessonVars, setupVars, overlapVars>>)
    \/ (LuckyNumber_init /\ UNCHANGED <<lessonVars, setupVars, overlapVars>>)
    \/ (LatestGrade_async_update /\ UNCHANGED <<lessonVars, setupVars, overlapVars>>)
    \/ (LatestAttendance_async_update /\ UNCHANGED <<lessonVars, setupVars, overlapVars>>)
    \/ (LatestMessage_async_update /\ UNCHANGED <<lessonVars, setupVars, overlapVars>>)
    \/ (NextHomework_async_update /\ UNCHANGED <<lessonVars, setupVars, overlapVars>>)
    \/ (NextExam_async_update /\ UNCHANGED <<lessonVars, setupVars, overlapVars>>)
    \/ (LuckyNumber_async_update /\ UNCHANGED <<lessonVars, setupVars, overlapVars>>)

Spec == Init /\ [][Next]_vars

-----------------------------------------------------------------------------
(* The timetable coordinator: async_update_data and the refresh that runs it *)

\* exceptions that can end the body of async_update_data
LessonErrors == {"UnauthorizedCertificateException", "ClientConnectorError",
                 "TimeoutError", "Exception"}

\* fetch_data.get_lessons: the slots of one day, each carrying the day it
\* was assembled for
get_lessons(date_from, entities_number, v) ==
    [i \in 0..(entities_number - 1) |->
        [lesson |-> <<v, i>>, date |-> date_from, room |-> v]]

\* async_update_data, from what its body did: r is Ok(the dict built) or
\* Err(the exception raised inside "async with timeout(30)")
async_update_data_TimeoutReturns(r) ==
    IF r.ok THEN [raises |-> "none", value |-> r.value, reauth |-> 0]
    ELSE IF r.err \in {"UnauthorizedCertificateException", "TimeoutError"}
    THEN [raises |-> "none", value |-> None,
          reauth |-> IF r.err = "TimeoutError" THEN 0 ELSE 1]
    ELSE [raises |-> "UpdateFailed", value |-> None, reauth |-> 0]
async_update_data_AuthFails(r) ==
    IF r.ok THEN [raises |-> "none", value |-> r.value, reauth |-> 0]
    ELSE [raises |-> "UpdateFailed", value |-> None, reauth |-> 0]
async_update_data(r) ==
    IF r.ok THEN [raises |-> "none", value |-> r.value, reauth |-> 0]
    ELSE IF r.err = "UnauthorizedCertificateException"
    THEN [raises |-> "none", value |-> None, reauth |-> 1]
    ELSE [raises |-> "UpdateFailed", value |-> None, reauth |-> 0]

\* DataUpdateCoordinator.async_refresh, from the end of the update method:
\* a returned value becomes the data, UpdateFailed keeps the data
async_refresh(r) ==
    LET o == async_update_data(r) IN
    /\ reauth' = o.reauth
    /\ update_failed' = (o.raises = "UpdateFailed")
    /\ last_error' = IF r.ok THEN "none" ELSE r.err
    /\ last_good' = IF r.ok THEN r.value ELSE last_good
    /\ IF o.raises = "none"
       THEN /\ data' = o.value
            /\ last_update_success' = TRUE
            /\ recovered' = ~last_update_success
       ELSE /\ UNCHANGED data
            /\ last_update_success' = FALSE
            /\ recovered' = FALSE
    /\ refreshes' = 1 - refreshes
    /\ cpc' = "idle"
    /\ partial' = NoLessons

\* coordinator.data[f"lessons{self.tomorrow}"][f"lesson_{self.number}"];
\* subscripting the data raises TypeError while the data is None
LessonInfo(is_tomorrow, number) ==
    IF is_tomorrow THEN data.lessons_t[number] ELSE data.lessons[number]

\* VulcanLessonEntity.state: Ok(the value) or Err(the exception)
VulcanLessonEntity_state(is_tomorrow, number) ==
    IF data = None THEN Err("TypeError")
    ELSE Ok(LessonInfo(is_tomorrow, number).lesson)

\* VulcanLessonEntity.extra_state_attributes: Ok(the value) or Err(the exception)
extra_state_attributes(is_tomorrow, number) ==
    IF data = None THEN Err("TypeError")
    ELSE Ok([room |-> LessonInfo(is_tomorrow, number).room])

\* VulcanLessonEntity.available: "True", "False", or the TypeError of a read
\* of data that is None
available_IgnoresDate(is_tomorrow, number) == "True"
available_SameDayForTomorrow(is_tomorrow, number) ==
    IF ~last_update_success
    THEN IF data = None THEN "TypeError"
         ELSE IF LessonInfo(is_tomorrow, number).date # today THEN "False"
         ELSE "True"
    ELSE "True"
available(is_tomorrow, number) ==
    IF ~last_update_success
    THEN IF data = None THEN "TypeError"
         ELSE IF ~is_tomorrow
              THEN IF LessonInfo(is_tomorrow, number).date # today
                   THEN "False" ELSE "True"
              ELSE IF LessonInfo(is_tomorrow, number).date # today + 1
                   THEN "False" ELSE "True"
    ELSE "True"

\* the clock passes midnight
Midnight ==
    /\ today < MaxDay
    /\ today' = today + 1
    /\ UNCHANGED <<data, last_update_success, cpc, partial, reauth, update_failed,
                   last_error, recovered, last_good, refreshes>>

\* how one get_lessons call ends: Ok(the version of the timetable it read)
\* or Err(the exception it raised)
LessonOutcomes == {Ok(v) : v \in 1..MaxVersion} \cup {Err(e) : e \in LessonErrors}

\* a refresh starts and its first get_lessons call ends
FetchLessons ==
    /\ cpc = "idle"
    /\ \E o \in LessonOutcomes :
          IF o.ok
          THEN /\ partial' = get_lessons(today, NumSlots, o.value)
               /\ cpc' = "lessons_t"
               /\ UNCHANGED <<data, last_update_success, reauth, update_failed,
                              last_error, recovered, last_good, refreshes>>
          ELSE async_refresh(o)
    /\ UNCHANGED today

\* the second get_lessons call of the refresh ends, and with it the refresh
FetchLessonsTomorrow ==
    /\ cpc = "lessons_t"
    /\ \E o \in LessonOutcomes :
          IF o.ok
          THEN async_refresh(Ok([lessons |-> partial,
                                 lessons_t |-> get_lessons(today + 1, NumSlots, o.value)]))
          ELSE async_refresh(o)
    /\ UNCHANGED today

NextLessons ==
    \/ (Midnight /\ UNCHANGED <<entityVars, setupVars, overlapVars>>)
    \/ (FetchLessons /\ UNCHANGED <<entityVars, setupVars, overlapVars>>)
    \/ (FetchLessonsTomorrow /\ UNCHANGED <<entityVars, setupVars, overlapVars>>)

SpecLessons == Init /\ [][NextLessons]_vars

-----------------------------------------------------------------------------
(* async_setup_entry: one call after another, each for one config entry     *)

\* the awaits of async_setup_entry in the order it makes them, then the call
\* of async_add_entities
SetupOrder == <<"async_refresh", "student_info", "grade", "message", "lucky_number",
                "attendance", "homework", "exam", "async_add_entities">>

\* the value of the module global after "global SCAN_INTERVAL; SCAN_INTERVAL = ..."
ScanIntervalFor(current, opts) ==
    IF "scan_interval" \in DOMAIN opts
    THEN timedelta(opts.scan_interval) ELSE current

\* what a first refresh can end with: both sets fetched, or an exception
RefreshResults ==
    {Ok([lessons |-> get_lessons(today, NumSlots, v),
         lessons_t |-> get_lessons(today + 1, NumSlots, w)]) : v, w \in 1..MaxVersion}
    \cup {Err(e) : e \in LessonErrors}

\* what leaves async_setup_entry when a fetch of the data dict raises e
SetupRaises(e) == IF e = "ClientConnectorError" THEN "PlatformNotReady" ELSE e

\* async_setup_entry up to the creation of the coordinator
SetupBegin ==
    /\ spc = 0
    /\ entries < MaxEntries
    /\ \E o \in EntryOptions :
          /\ options' = o
          /\ SCAN_INTERVAL' = ScanIntervalFor(SCAN_INTERVAL, o)
          /\ update_interval' = ScanIntervalFor(SCAN_INTERVAL, o)
    /\ spc' = 1
    /\ setup_raised' = "none"
    /\ entities_added' = FALSE
    /\ entries' = entries + 1
    /\ data' = None
    /\ last_update_success' = TRUE
    /\ reauth' = 0
    /\ update_failed' = FALSE
    /\ last_error' = "none"
    /\ recovered' = FALSE
    /\ last_good' = None
    /\ UNCHANGED <<today, cpc, partial, refreshes, connection_error>>

\* await coordinator.async_refresh(): it ends without raising
SetupRefresh ==
    /\ spc = 1
    /\ \E r \in RefreshResults : async_refresh(r)
    /\ spc' = spc + 1
    /\ UNCHANGED <<today, SCAN_INTERVAL, options, update_interval, setup_raised,
                   entities_added, connection_error, entries>>

\* one fetch of the data dict returns or raises
SetupFetch ==
    /\ spc \in 2..(Len(SetupOrder) - 1)
    /\ \E r \in {Ok(SetupOrder[spc])} \cup {Err(e) : e \in FetchErrors} :
          IF r.ok
          THEN /\ spc' = spc + 1
               /\ UNCHANGED <<setup_raised, connection_error>>
          ELSE /\ spc' = 0
               /\ setup_raised' = SetupRaises(r.err)
               /\ connection_error' =
                     (connection_error \/ r.err = "ClientConnectorError")
    /\ UNCHANGED <<lessonVars, SCAN_INTERVAL, options, update_interval,
                   entities_added, entries>>

\* the entities are constructed and handed to async_add_entities
SetupAddEntities ==
    /\ spc = Len(SetupOrder)
    /\ entities_added' = TRUE
    /\ spc' = 0
    /\ UNCHANGED <<lessonVars, SCAN_INTERVAL, options, update_interval,
                   setup_raised, connection_error, entries>>

NextSetup ==
    \/ (SetupBegin /\ UNCHANGED <<entityVars, overlapVars>>)
    \/ (SetupRefresh /\ UNCHANGED <<entityVars, overlapVars>>)
    \/ (SetupFetch /\ UNCHANGED <<entityVars, overlapVars>>)
    \/ (SetupAddEntities /\ UNCHANGED <<entityVars, overlapVars>>)

SpecSetup == Init /\ [][NextSetup]_vars

-----------------------------------------------------------------------------
(* Vocabulary of the properties *)

Tracked == {"grade", "attendance", "message"}

\* the snapshot the entity stores
Snapshot ==
    CASE cls = "grade" -> latest_grade
      [] cls = "attendance" -> latest_attendance
      [] cls = "message" -> latest_message
      [] cls = "homework" -> next_homework
      [] cls = "exam" -> next_exam
      [] cls = "lucky_number" -> lucky_number
      [] OTHER -> None

\* the comparison baseline the entity stores
Baseline ==
    CASE cls = "grade" -> old_state
      [] cls = "attendance" -> old_att
      [] cls = "message" -> old_msg
      [] OTHER -> None

\* the identity of a snapshot, as the baseline holds it
IdentityOf(c, s) ==
    CASE c = "grade" -> s.content \o <<"_">> \o s.subject \o <<"_">> \o s.date
                          \o <<"_">> \o s.description
      [] c = "attendance" -> s.datetime
      [] c = "message" -> s.id

\* the snapshot is the empty placeholder of its kind
IsSentinel(c, s) ==
    CASE c = "grade" -> s.content = <<"-">>
      [] c = "attendance" -> s.content = "-"
      [] c = "message" -> s.id = 0

GradeTuple(g) == <<g.content, g.subject, g.date, g.description>>

\* the step is an async_update call / one whose fetch succeeded / one whose
\* fetch failed twice
Updated == fetches' # <<>>
Fetched == fetches' # <<>> /\ Last(fetches').ok
FailedTwice == Len(fetches') = 2 /\ ~fetches'[2].ok

\* the first n characters of s, or all of s when it has fewer
Prefix(s, n) == [i \in 1..(IF Len(s) < n THEN Len(s) ELSE n) |-> s[i]]

\* the state a tracker of class c exposes for the snapshot s
StateOf(c, s) ==
    CASE c \in {"grade", "attendance"} -> s.content
      [] c = "message" -> Prefix(s.title, STATE_MAX_LEN)
      [] c \in {"homework", "exam"} -> Prefix(s.description, STATE_MAX_LEN)
      [] c = "lucky_number" -> s.number

\* the snapshot s counts as changed for a tracker of class c with baseline b
CountsAsChanged(c, b, s) ==
    /\ c \in Tracked
    /\ ~IsSentinel(c, s)
    /\ IF c = "attendance" THEN b < IdentityOf(c, s) ELSE b # IdentityOf(c, s)

\* the step is an async_update call of a tracker whose fetched snapshot counts
\* as changed: not the placeholder, and of another identity than the baseline
\* (for attendance: of a later datetime)
Changed ==
    /\ cls \in Tracked
    /\ Fetched
    /\ ~IsSentinel(cls, Snapshot')
    /\ IF cls = "attendance"
       THEN Baseline < IdentityOf(cls, Snapshot')
       ELSE Baseline # IdentityOf(cls, Snapshot')

-----------------------------------------------------------------------------
(* Two async_update calls of one tracker that overlap: each is suspended at *)
(* its fetch await, and the rest of the call runs without suspension when   *)
(* the await returns.                                                       *)

\* what the fetch of a tracker of class c can return
SnapshotsOf(c) ==
    CASE c = "grade" -> Grades
      [] c = "attendance" -> Attendances
      [] c = "message" -> Messages

\* a call begins and is suspended at its first await; the first call to
\* begin fixes what the portal serves
OverlapBegin(i) ==
    /\ cls \in Tracked
    /\ inflight[i].pc = "idle"
    /\ inflight' = [inflight EXCEPT ![i].pc = "await"]
    /\ IF \A j \in Tasks : inflight[j].pc = "idle"
       THEN \E s \in SnapshotsOf(cls) :
               /\ target' = s
               /\ target_changed' = CountsAsChanged(cls, Baseline, s)
       ELSE UNCHANGED <<target, target_changed>>
    /\ UNCHANGED entityVars

\* the code after the try/except of async_update, for the returned snapshot s:
\* f is the record of the calls made, i the call
OverlapEvaluate(i, f, s) ==
    LET new == CASE cls = "grade" -> GradeIsNew(old_state, s)
                 [] cls = "attendance" -> AttendanceIsNew(old_att, s)
                 [] cls = "message" -> MessageIsNew(old_msg, s)
        tells == IF cls = "attendance" THEN AttendanceNotifies(notify, s)
                 ELSE notify = "True"
        ns == IF new /\ tells THEN Notification(cls, s) ELSE <<>>
        es == IF ~new THEN <<>>
              ELSE CASE cls = "grade" -> DeviceEvent("message", "new_grade")
                     [] cls = "attendance" -> DeviceEvent("attendance", "new_attendance")
                     [] cls = "message" -> DeviceEvent("message", "new_message")
    IN /\ latest_grade' = IF cls = "grade" THEN s ELSE latest_grade
       /\ old_state' = IF cls = "grade" THEN GradeBaseline(old_state, s) ELSE old_state
       /\ latest_attendance' = IF cls = "attendance" THEN s ELSE latest_attendance
       /\ old_att' = IF cls = "attendance" THEN AttendanceBaseline(old_att, s)
                     ELSE old_att
       /\ latest_message' = IF cls = "message" THEN s ELSE latest_message
       /\ old_msg' = IF cls = "message" THEN MessageBaseline(old_msg, s) ELSE old_msg
       /\ state' = IF cls = "message" THEN Truncate(s.title) ELSE s.content
       /\ Called(f, "none", ns, es)
       /\ inflight' = [inflight EXCEPT ![i] =
                          [pc |-> "done", fetches |-> f, notifications |-> ns]]

\* an await of a suspended call returns or raises, while the other call is
\* suspended or has ended
OverlapResume(i) ==
    /\ inflight[i].pc = "await"
    /\ \A j \in Tasks : inflight[j].pc # "idle"
    /\ \E r \in {Ok(target)} \cup {Err(e) : e \in FetchErrors} :
          LET f == Append(inflight[i].fetches, r) IN
          IF r.ok
          THEN OverlapEvaluate(i, f, r.value)
          ELSE IF Len(f) = 1
          THEN /\ inflight' = [inflight EXCEPT ![i].fetches = f]
               /\ UNCHANGED <<latest_grade, old_state, latest_attendance, old_att,
                              latest_message, old_msg, state, fetches, raised,
                              notifications, events, calls>>
          ELSE /\ inflight' = [inflight EXCEPT ![i] =
                                  [pc |-> "done", fetches |-> f,
                                   notifications |-> <<>>]]
               /\ Called(f, r.err, <<>>, <<>>)
               /\ UNCHANGED <<latest_grade, old_state, latest_attendance, old_att,
                              latest_message, old_msg, state>>
    /\ UNCHANGED <<cls, notify, next_homework, next_exam, lucky_number, devices,
                   target, target_changed>>

NextOverlap ==
    \/ (LatestGrade_init /\ UNCHANGED <<lessonVars, setupVars, overlapVars>>)
    \/ (LatestAttendance_init /\ UNCHANGED <<lessonVars, setupVars, overlapVars>>)
    \/ (LatestMessage_init /\ UNCHANGED <<lessonVars, setupVars, overlapVars>>)
    \/ \E i \in Tasks : (OverlapBegin(i) /\ UNCHANGED <<lessonVars, setupVars>>)
    \/ \E i \in Tasks : (OverlapResume(i) /\ UNCHANGED <<lessonVars, setupVars>>)

SpecOverlap == Init /\ [][NextOverlap]_vars

\* both calls have ended, each with a snapshot returned
BothReturned ==
    \A i \in Tasks :
        /\ inflight[i].pc = "done"
        /\ inflight[i].fetches[Len(inflight[i].fetches)].ok

-----------------------------------------------------------------------------
(* C1: a cycle that fetches the snapshot the tracker already stores (so every*)
(* cycle but the first of a run of cycles fetching the same snapshot) emits *)
(* no notification; no cycle emits more than one; and a cycle whose fetched *)
(* snapshot has the identity of the baseline emits none.                    *)
C1_Idempotence ==
    [][(cls \in Tracked /\ Fetched) =>
         /\ Len(notifications') <= 1
         /\ (Snapshot' = Snapshot => notifications' = <<>>)
         /\ (IdentityOf(cls, Snapshot') = Baseline => notifications' = <<>>)]_vars

\* a real grade was fetched with the toggle on and nothing was notified
C1_Witness ==
    /\ cls = "grade" /\ notify = "True"
    /\ fetches # <<>> /\ raised = "none"
    /\ latest_grade.content # <<"-">>
    /\ notifications = <<>>

C4_AttendanceNotifiesIffNewer ==
    [][(cls = "attendance" /\ notify = "True" /\ Fetched) =>
         /\ (notifications' # <<>>) <=>
               (/\ latest_attendance'.datetime > old_att
                /\ latest_attendance'.content \notin {"-", "obecnosc"})
         /\ (/\ latest_attendance.content = "obecnosc"
             /\ latest_attendance.datetime = old_att
             /\ latest_attendance'.content = "spoznienie"
             /\ latest_attendance'.datetime > latest_attendance.datetime)
            => Len(notifications') = 1]_vars

\* a "spoznienie" entry was notified
C4_Witness ==
    /\ cls = "attendance"
    /\ latest_attendance.content = "spoznienie"
    /\ notifications = Notification("attendance", latest_attendance)

C7_RetryOnceAndKeep ==
    [][Updated =>
         /\ Len(fetches') \in {1, 2}
         /\ (Len(fetches') = 2) <=> ~fetches'[1].ok
         /\ FailedTwice =>
              /\ Snapshot' = Snapshot
              /\ state' = state
              /\ Baseline' = Baseline
              /\ notifications' = <<>>
              /\ events' = <<>>]_vars

\* both calls of a cycle raised
C7_Witness ==
    /\ Len(fetches) = 2
    /\ ~fetches[1].ok /\ ~fetches[2].ok

(* C8: a cycle in which the fetch and its retry both fail completes         *)
(* normally: no exception leaves async_update.                              *)
C8_NoExceptionEscapes ==
    (Len(fetches) = 2 /\ ~fetches[2].ok) => raised = "none"

(* C9: constructing a grade, attendance or message tracker notifies nothing *)
(* and fires nothing, and takes the baseline from the setup snapshot;       *)
(* whatever is notified or fired comes from an async_update call.           *)
C9_ConstructionIsSilent ==
    [][/\ (cls = "none" /\ cls' \in Tracked) =>
            /\ notifications' = <<>>
            /\ events' = <<>>
            /\ Baseline' = IdentityOf(cls', Snapshot')
       /\ (notifications' # <<>> \/ events' # <<>>) => Updated]_vars

\* a tracker just constructed from a real grade, with the toggle on
C9_Witness ==
    /\ cls = "grade" /\ notify = "True"
    /\ fetches = <<>>
    /\ latest_grade.content # <<"-">>
    /\ old_state = IdentityOf("grade", latest_grade)

\* the step ends a refresh
RefreshEnded == refreshes' # refreshes

(* C10: a refresh ended by a timeout or by a fetch error other than the     *)
(* authorization failure raises UpdateFailed, keeps coordinator.data and    *)
(* marks the last update unsuccessful; a refresh run afterwards that        *)
(* fetches both lesson sets replaces both snapshots and marks the last      *)
(* update successful.                                                       *)
C10_SoftFailureKeepsSnapshots ==
    [][RefreshEnded =>
         /\ (last_error' \in {"TimeoutError", "ClientConnectorError", "Exception"}) =>
              /\ update_failed'
              /\ data' = data
              /\ ~last_update_success'
         /\ (last_error' = "none") =>
              /\ ~update_failed'
              /\ last_update_success'
              /\ data'.lessons = partial
              /\ \E v \in 1..MaxVersion :
                    data'.lessons_t = get_lessons(today + 1, NumSlots, v)]_vars

\* a refresh run after a failed one succeeded and stored both snapshots
C10_Witness ==
    /\ recovered
    /\ last_update_success
    /\ data # None
    /\ data.lessons[0].date > 0

\* what a lesson entity shows: its state and its attributes
Exposed(is_tomorrow, number) ==
    [state |-> VulcanLessonEntity_state(is_tomorrow, number),
     attributes |-> extra_state_attributes(is_tomorrow, number)]

Slots == 0..(NumSlots - 1)

(* C11: once a refresh has fetched both lesson sets, every lesson slot      *)
(* exposes the value and the attributes of the sets the most recent such    *)
(* refresh built, whatever refreshes ended since (one ended by an           *)
(* authorization failure too).                                              *)
C11_ExposedIsLastGoodSnapshot ==
    last_good # None =>
        \A i \in Slots :
            /\ Exposed(FALSE, i) =
                  [state |-> Ok(last_good.lessons[i].lesson),
                   attributes |-> Ok([room |-> last_good.lessons[i].room])]
            /\ Exposed(TRUE, i) =
                  [state |-> Ok(last_good.lessons_t[i].lesson),
                   attributes |-> Ok([room |-> last_good.lessons_t[i].room])]

(* C12: a refresh starts the re-authentication flow once when a lesson      *)
(* fetch raised the authorization failure, and then does not raise          *)
(* UpdateFailed; any other refresh starts no re-authentication flow.        *)
C12_ReauthExactlyOnAuthFailure ==
    [][RefreshEnded =>
         /\ reauth' = IF last_error' = "UnauthorizedCertificateException"
                      THEN 1 ELSE 0
         /\ (last_error' = "UnauthorizedCertificateException") => ~update_failed']_vars

\* a refresh ended by the authorization failure started the flow
C12_Witness ==
    /\ last_error = "UnauthorizedCertificateException"
    /\ reauth = 1
    /\ ~update_failed

(* C13: a per-fact async_update whose first fetch call raises the           *)
(* authorization failure makes no second call and starts the                *)
(* re-authentication flow.                                                  *)
C13_AuthFailureNotRetried ==
    (fetches # <<>> /\ fetches[1] = Err("UnauthorizedCertificateException")) =>
        /\ Len(fetches) = 1
        /\ reauth = 1

(* C14: while the last refresh is unsuccessful, every today slot whose      *)
(* stored date is not the current date and every tomorrow slot whose stored *)
(* date is not the current date + 1 reports available = false.              *)
C14_StaleSlotsUnavailable ==
    (~last_update_success /\ data # None) =>
        \A i \in Slots :
            /\ (data.lessons[i].date # today) => available(FALSE, i) = "False"
            /\ (data.lessons_t[i].date # today + 1) => available(TRUE, i) = "False"

\* the refresh failed and the clock has passed the day of the stored snapshot
C14_Witness ==
    /\ ~last_update_success
    /\ data # None
    /\ \A i \in Slots : data.lessons[i].date < today /\ available(FALSE, i) = "False"
    /\ \A i \in Slots : data.lessons_t[i].date < today + 1
                        /\ available(TRUE, i) = "False"

(* C15 as stated: in every state a slot that reports available = true holds *)
(* data of the expected date (today, or today + 1 for a tomorrow slot).     *)
C15_Original ==
    data # None =>
        \A i \in Slots :
            /\ (available(FALSE, i) = "True") => data.lessons[i].date = today
            /\ (available(TRUE, i) = "True") => data.lessons_t[i].date = today + 1

(* C15 amended: whenever the last refresh was unsuccessful, a slot that     *)
(* reports available = true holds data of the expected date (today, or      *)
(* today + 1 for a tomorrow slot).                                          *)
C15_AvailableAfterFailureIsFresh ==
    ~last_update_success =>
        \A i \in Slots :
            /\ (available(FALSE, i) = "True") =>
                  (data # None /\ data.lessons[i].date = today)
            /\ (available(TRUE, i) = "True") =>
                  (data # None /\ data.lessons_t[i].date = today + 1)

\* the refresh failed on the day of the stored snapshots: the slots stay
\* available
C15_Witness ==
    /\ ~last_update_success
    /\ data # None
    /\ \A i \in Slots : available(FALSE, i) = "True" /\ available(TRUE, i) = "True"

(* C16: the two snapshots a refresh stores are of consecutive days: the     *)
(* date of the tomorrow set is the date of the today set plus one.          *)
C16_TomorrowIsTodayPlusOne ==
    data # None =>
        \A i \in Slots : data.lessons_t[i].date = data.lessons[i].date + 1

(* C17: a changed snapshot emits the event new_<kind> iff the device of    *)
(* that kind (grade<id>, attendance<id>, message<id>) is registered, and    *)
(* the event carries the id of that device.                                 *)
C17_EventCarriesOwnDevice ==
    [][Changed =>
         /\ (events' # <<>>) <=> (cls \in devices)
         /\ (events' # <<>>) => events'[1].device_id = cls]_vars

(* C18 as stated: a tracker's cycle emits a domain event only when it       *)
(* emits a persistent notification.                                         *)
C18_Original ==
    [][(cls \in Tracked /\ Updated) =>
         ((events' # <<>>) => (notifications' # <<>>))]_vars

(* C18 amended: a tracker's cycle emits a domain event only when the        *)
(* fetched snapshot counts as changed, whatever the notify toggle; it emits *)
(* a persistent notification only when the snapshot counts as changed and   *)
(* the toggle is on.                                                        *)
C18_EventOnlyWhenChanged ==
    [][(cls \in Tracked /\ Updated) =>
         /\ (events' # <<>>) => Changed
         /\ (notifications' # <<>>) => (Changed /\ notify = "True")]_vars

\* with the toggle off a cycle emitted an event and no notification
C18_Witness ==
    /\ cls \in Tracked
    /\ notify # "True"
    /\ events # <<>>
    /\ notifications = <<>>

\* an async_setup_entry call has ended / one of its initial fetches failed
SetupEnded == spc = 0 /\ entries > 0
InitialFetchFailed == last_error # "none" \/ setup_raised # "none"

(* C19: an async_setup_entry call in which the first refresh or a fetch of  *)
(* the data dict failed ends with PlatformNotReady and without calling      *)
(* async_add_entities.                                                      *)
C19_FailedSetupIsNotReady ==
    (SetupEnded /\ InitialFetchFailed) =>
        (setup_raised = "PlatformNotReady" /\ ~entities_added)

(* C20: the coordinator of an entry whose options set a scan interval uses  *)
(* that interval, and the coordinator of an entry whose options set none    *)
(* uses the default interval, whatever entries were set up before.          *)
C20_IntervalIsPerEntry ==
    entries > 0 =>
        update_interval = IF "scan_interval" \in DOMAIN options
                          THEN timedelta(options.scan_interval)
                          ELSE DefaultInterval

(* C22: a cycle whose fetch returned the snapshot S, at the first attempt  *)
(* or at the retry after a failed first attempt, ends in the tracker state  *)
(* (snapshot, exposed state, baseline) and with the notifications and       *)
(* events that the state before the cycle and S determine: the failed first *)
(* attempt leaves no trace.                                                 *)
C22_RetryIsTransparent ==
    [][(Updated /\ fetches'[Len(fetches')].ok) =>
         LET S == fetches'[Len(fetches')].value
             new == CountsAsChanged(cls, Baseline, S)
             lookup == IF cls = "grade" THEN "message" ELSE cls
         IN /\ Snapshot' = S
            /\ state' = StateOf(cls, S)
            /\ Baseline' = IF new THEN IdentityOf(cls, S) ELSE Baseline
            /\ notifications' =
                  IF /\ new
                     /\ notify = "True"
                     /\ (cls = "attendance" => S.content # "obecnosc")
                  THEN <<[kind |-> cls, snapshot |-> S]>> ELSE <<>>
            /\ Len(events') = IF new /\ lookup \in devices THEN 1 ELSE 0
            /\ (events' # <<>>) => events'[1].device_id = lookup]_vars

\* the retry of a cycle returned a snapshot, which was notified
C22_Witness ==
    /\ Len(fetches) = 2
    /\ ~fetches[1].ok /\ fetches[2].ok
    /\ Snapshot = fetches[2].value
    /\ notifications # <<>>

(* C23: old_att never decreases; a fetched entry whose datetime is not      *)
(* later than old_att leaves old_att as it is, notifies and fires nothing,  *)
(* and becomes the exposed state.                                           *)
C23_AttendanceBaselineMonotonic ==
    [][(cls = "attendance" /\ Updated) =>
         /\ old_att' >= old_att
         /\ (fetches'[Len(fetches')].ok /\ latest_attendance'.datetime <= old_att) =>
              /\ old_att' = old_att
              /\ notifications' = <<>>
              /\ events' = <<>>
              /\ state' = latest_attendance'.content]_vars

\* an entry older than the baseline was fetched and is the exposed state
C23_Witness ==
    /\ cls = "attendance"
    /\ fetches # <<>> /\ raised = "none"
    /\ latest_attendance.datetime < old_att
    /\ latest_attendance.content = "spoznienie"
    /\ state = "spoznienie"

(* C24: from its construction on, whatever async_update calls completed or  *)
(* failed, the exposed state of a tracker is derived from the snapshot it   *)
(* stores: the content, the title or the description cut to 250             *)
(* characters, or the number.                                               *)
C24_StateIsOfStoredSnapshot ==
    cls # "none" => state = StateOf(cls, Snapshot)

\* a message with a title longer than 250 characters was fetched
C24_Witness ==
    /\ cls = "message"
    /\ fetches # <<>> /\ raised = "none"
    /\ Len(latest_message.title) > STATE_MAX_LEN
    /\ Len(state) = STATE_MAX_LEN

(* C25: two grades whose (content, subject, date, description) tuples       *)
(* differ have different "_"-joined keys.                                   *)
C25_GradeKeyInjective ==
    [][(cls = "grade" /\ Updated /\ fetches'[Len(fetches')].ok
        /\ GradeTuple(latest_grade') # GradeTuple(latest_grade)) =>
         GradeKey(latest_grade') # GradeKey(latest_grade)]_vars

(* C21: when two overlapping async_update calls of a grade, attendance or  *)
(* message tracker have both returned the same snapshot, in whichever order *)
(* they were resumed, the two together have emitted exactly one             *)
(* notification if that snapshot counted as changed when they began and the *)
(* toggle lets it be notified, and none otherwise.                          *)
C21_OverlapNotifiesOnce ==
    BothReturned =>
        Len(inflight["a"].notifications) + Len(inflight["b"].notifications) =
            IF /\ target_changed
               /\ notify = "True"
               /\ (cls = "attendance" => target.content # "obecnosc")
            THEN 1 ELSE 0

\* both calls returned the changed snapshot, "b" after a retry and before
\* "a": "b" notified it and "a" did not
C21_Witness ==
    /\ BothReturned
    /\ target_changed
    /\ Len(inflight["b"].fetches) = 2
    /\ inflight["b"].notifications # <<>>
    /\ inflight["a"].notifications = <<>>
    /\ fetches = inflight["a"].fetches

====
